---- MODULE Spec2Model ----
(***************************************************************************)
(* Model of static/js/questionnaire.js: a multi-step questionnaire form    *)
(* (section navigation, required-field validation, submission to /predict).*)
(* Every handler registered by the script is one action; the DOM it reads  *)
(* and writes is the state.                                                *)
(***************************************************************************)
EXTENDS Integers, Sequences, FiniteSets, TLC

(* ---------------------------- bounds ----------------------------------- *)
\* largest number of .form-section elements a document of the model has
MaxSections == 3
\* longest text typed into a text input
MaxLen == 1
\* how far below 0 the model follows currentSection
MaxUnderflow == 2

(* ----------------------- the document (DOM contract) ------------------- *)
\* the form's controls in tree order; "value" is the value attribute of a
\* radio or checkbox (a checkbox without one submits "on"); the two checkboxes
\* share a name, as the options of a multi-choice question do
Form ==
  << [section |-> 0, kind |-> "text",     name |-> "age",        required |-> TRUE,  value |-> << >>],
     [section |-> 1, kind |-> "radio",    name |-> "riskGroup",  required |-> TRUE,  value |-> <<"l", "o", "w">>],
     [section |-> 1, kind |-> "radio",    name |-> "riskGroup",  required |-> FALSE, value |-> <<"h", "i", "g", "h">>],
     [section |-> 1, kind |-> "select",   name |-> "region",     required |-> TRUE,  value |-> << >>],
     [section |-> 2, kind |-> "checkbox", name |-> "terms",      required |-> TRUE,  value |-> <<"o", "n">>],
     [section |-> 2, kind |-> "checkbox", name |-> "terms",      required |-> FALSE, value |-> <<"n", "e", "w", "s">>] >>

FieldIds == 1..Len(Form)

\* characters a user types; strings are sequences of characters
Chars == {" ", "a"}
Whitespace == {" "}
TextValues == UNION {[1..n -> Chars] : n \in 0..MaxLen}
\* the option values of a select: the placeholder option and a real one
SelectOptions == {<< >>, <<"a">>}

Page == "/questionnaire"

\* how a settled request came back: fetch rejected ("transport"), response.json()
\* rejected ("parse"), or a JSON object with its success, error and result members
\* ("" for a member that is absent)
NoResponse == [kind |-> "none", success |-> FALSE, error |-> "", result |-> ""]
Outcomes ==
  { [kind |-> "transport", success |-> FALSE, error |-> "", result |-> ""],
    [kind |-> "parse",     success |-> FALSE, error |-> "", result |-> ""],
    [kind |-> "json",      success |-> TRUE,  error |-> "", result |-> "score: 0.8"],
    [kind |-> "json",      success |-> FALSE, error |-> "bad input", result |-> ""],
    [kind |-> "json",      success |-> FALSE, error |-> "", result |-> ""] }

VARIABLES
  totalSections,   \* const totalSections = sections.length
  currentSection,  \* let currentSection
  active,          \* section -> its classList contains 'active'
  progressWidth,   \* progressBar.style.width, as <<numerator, denominator>> percent
  currentStep,     \* currentStepSpan.textContent
  prevDisplay,     \* prevBtn.style.display
  nextDisplay,     \* nextBtn.style.display
  submitDisplay,   \* submitBtn.style.display
  submitText,      \* submitBtn.textContent
  submitDisabled,  \* submitBtn.disabled
  value,           \* field -> input.value of a text input or select
  checked,         \* field -> input.checked of a radio or checkbox
  inflight,        \* the fetch('/predict') requests not yet settled
  sessionStorage,  \* key -> stored string
  location,        \* window.location.href
  event,           \* the handler that ran last
  alertMsg,        \* the alert() the last handler showed, "" if none
  consoleError,    \* what the last handler left on the console, "" if nothing
  response         \* the outcome the last settled request came back with

vars == << totalSections, currentSection, active, progressWidth, currentStep,
           prevDisplay, nextDisplay, submitDisplay, submitText, submitDisabled,
           value, checked, inflight, sessionStorage, location,
           event, alertMsg, consoleError, response >>

domVars == << active, progressWidth, currentStep, prevDisplay, nextDisplay, submitDisplay >>
submitVars == << submitText, submitDisabled >>
fieldVars == << value, checked >>
netVars == << inflight, sessionStorage, location, response >>

Sections == 0..(totalSections - 1)

(* ------------------------------ strings -------------------------------- *)
RECURSIVE TrimStart(_)
TrimStart(s) ==
  IF s = << >> THEN s
  ELSE IF Head(s) \in Whitespace THEN TrimStart(Tail(s)) ELSE s

RECURSIVE TrimEnd(_)
TrimEnd(s) ==
  IF s = << >> THEN s
  ELSE IF s[Len(s)] \in Whitespace THEN TrimEnd(SubSeq(s, 1, Len(s) - 1)) ELSE s

\* String.prototype.trim
Trim(s) == TrimEnd(TrimStart(s))

(* --------------------------- validateSection --------------------------- *)
\* section.querySelectorAll('input[required], select[required]'), tree order
RECURSIVE RequiredInputsFrom(_, _)
RequiredInputsFrom(index, f) ==
  IF f > Len(Form) THEN << >>
  ELSE IF Form[f].section = index /\ Form[f].required
       THEN << f >> \o RequiredInputsFrom(index, f + 1)
       ELSE RequiredInputsFrom(index, f + 1)

requiredInputs(index) == RequiredInputsFrom(index, 1)

\* slip: the checkbox loop after the iteration is missing
checkboxesNone(index) == {}

\* section.querySelectorAll('input[type="checkbox"][required]')
checkboxes(index) ==
  {f \in FieldIds : Form[f].section = index /\ Form[f].kind = "checkbox" /\ Form[f].required}

\* one call of the forEach callback: the radioGroups object it leaves and the
\* value it returns ("undefined" when it falls off the end)
Callback(radioGroups, input) ==
  IF Form[input].kind = "radio"
  THEN LET name == Form[input].name
           g1 == IF name \notin DOMAIN radioGroups \/ ~radioGroups[name]
                 THEN [n \in DOMAIN radioGroups \cup {name} |->
                         IF n = name THEN FALSE ELSE radioGroups[n]]
                 ELSE radioGroups
           g2 == IF checked[input] THEN [g1 EXCEPT ![name] = TRUE] ELSE g1
       IN  [groups |-> g2, returns |-> "undefined"]
  ELSE IF Form[input].kind = "checkbox"
  THEN [groups |-> radioGroups, returns |-> IF ~checked[input] THEN "false" ELSE "undefined"]
  ELSE [groups |-> radioGroups,
        returns |-> IF Trim(value[input]) = << >> THEN "false" ELSE "undefined"]

\* NodeList.forEach: calls the callback on every element in order and ignores
\* what it returns
RECURSIVE ForEach(_, _)
ForEach(inputs, radioGroups) ==
  IF inputs = << >> THEN radioGroups
  ELSE ForEach(Tail(inputs), Callback(radioGroups, Head(inputs)).groups)

\* "pass" / "fail" for return true / return false; "throw" when sections[index]
\* is undefined and section.querySelectorAll raises a TypeError
validateSection(index) ==
  IF index \notin Sections THEN "throw"
  ELSE LET radioGroups == ForEach(requiredInputs(index), << >>)
       IN  IF \E group \in DOMAIN radioGroups : ~radioGroups[group] THEN "fail"
           ELSE IF \E checkbox \in checkboxes(index) : ~checked[checkbox] THEN "fail"
           ELSE "pass"

(* ------------------------------ showSection ---------------------------- *)
\* slip: the 'active' class is added without removing it from the others
ShowSectionActiveNoRemove(act, index) ==
  [act EXCEPT ![index] = TRUE]

\* classList.remove('active') on every section, then add on sections[index]
ShowSectionActive(act, index) ==
  LET hidden == [s \in DOMAIN act |-> FALSE]
  IN  [hidden EXCEPT ![index] = TRUE]

\* ((index + 1) / totalSections) * 100, kept exact as a fraction
Progress(index, total) == << (index + 1) * 100, total >>

PrevDisplay(index) == IF index = 0 THEN "none" ELSE "inline-block"
NextDisplay(index, total) == IF index = total - 1 THEN "none" ELSE "inline-block"
SubmitDisplay(index, total) == IF index = total - 1 THEN "inline-block" ELSE "none"

showSection(index) ==
  /\ active' = ShowSectionActive(active, index)
  /\ progressWidth' = Progress(index, totalSections)
  /\ currentStep' = index + 1
  /\ prevDisplay' = PrevDisplay(index)
  /\ nextDisplay' = NextDisplay(index, totalSections)
  /\ submitDisplay' = SubmitDisplay(index, totalSections)

(* ------------------------------ page load ------------------------------ *)
\* the DOMContentLoaded callback has run: currentSection = 0, showSection(0)
\* applied to whatever 'active' classes the markup carried; the form is blank
Init ==
  /\ totalSections \in 1..MaxSections
  /\ currentSection = 0
  /\ \E markup \in [0..(totalSections - 1) -> BOOLEAN] :
        active = ShowSectionActive(markup, 0)
  /\ progressWidth = Progress(0, totalSections)
  /\ currentStep = 1
  /\ prevDisplay = PrevDisplay(0)
  /\ nextDisplay = NextDisplay(0, totalSections)
  /\ submitDisplay = SubmitDisplay(0, totalSections)
  /\ submitText = "Submit Assessment"
  /\ submitDisabled = FALSE
  /\ value = [f \in {g \in FieldIds : Form[g].kind \in {"text", "select"}} |-> << >>]
  /\ checked = [f \in {g \in FieldIds : Form[g].kind \in {"radio", "checkbox"}} |-> FALSE]
  /\ inflight = << >>
  /\ sessionStorage = << >>
  /\ location = Page
  /\ event = "load"
  /\ alertMsg = ""
  /\ consoleError = ""
  /\ response = NoResponse

(* ------------------------------ user input ----------------------------- *)
\* the user can reach a control only in a section of the document that is shown
Editable(f) ==
  /\ location = Page
  /\ Form[f].section \in Sections
  /\ active[Form[f].section]

Handled(e, alerted, logged, settled) ==
  /\ event' = e
  /\ alertMsg' = alerted
  /\ consoleError' = logged
  /\ response' = settled

\* typing into a text input / choosing an option of a select
InputValue ==
  \E f \in DOMAIN value :
    \E v \in (IF Form[f].kind = "text" THEN TextValues ELSE SelectOptions) :
      /\ Editable(f)
      /\ v # value[f]
      /\ value' = [value EXCEPT ![f] = v]
      /\ Handled("input", "", "", NoResponse)
      /\ UNCHANGED << totalSections, currentSection, domVars, submitVars, checked,
                      inflight, sessionStorage, location >>

\* ticking or unticking a checkbox
ToggleCheckbox ==
  \E f \in DOMAIN checked :
    /\ Form[f].kind = "checkbox"
    /\ Editable(f)
    /\ checked' = [checked EXCEPT ![f] = ~checked[f]]
    /\ Handled("input", "", "", NoResponse)
    /\ UNCHANGED << totalSections, currentSection, domVars, submitVars, value,
                    inflight, sessionStorage, location >>

\* choosing a radio: it becomes checked, the others of its group unchecked
SelectRadio ==
  \E f \in DOMAIN checked :
    /\ Form[f].kind = "radio"
    /\ Editable(f)
    /\ ~checked[f]
    /\ checked' = [g \in DOMAIN checked |->
                     IF g = f THEN TRUE
                     ELSE IF Form[g].kind = "radio" /\ Form[g].name = Form[f].name THEN FALSE
                     ELSE checked[g]]
    /\ Handled("input", "", "", NoResponse)
    /\ UNCHANGED << totalSections, currentSection, domVars, submitVars, value,
                    inflight, sessionStorage, location >>

(* ------------------------------ navigation ----------------------------- *)
NextAlert == "Please answer all required questions before proceeding."
SubmitAlert == "Please complete all required fields and agree to the terms."
GenericError == "An error occurred while processing your assessment. Please try again."
TypeError == "TypeError: Cannot read properties of undefined (reading 'querySelectorAll')"

\* slip: the next handler advances without consulting validateSection
NextClickUnvalidated ==
  /\ location = Page
  /\ currentSection < totalSections
  /\ currentSection' = currentSection + 1
  /\ IF currentSection' < totalSections /\ currentSection' >= 0
     THEN showSection(currentSection')
     ELSE UNCHANGED domVars
  /\ Handled("next", "", "", NoResponse)
  /\ UNCHANGED << totalSections, submitVars, fieldVars, inflight, sessionStorage, location >>

\* nextBtn 'click'
NextClick ==
  /\ location = Page
  /\ LET valid == validateSection(currentSection)
     IN  IF valid = "pass"
         THEN /\ currentSection' = currentSection + 1
              /\ IF currentSection' < totalSections
                 THEN showSection(currentSection')
                 ELSE UNCHANGED domVars
              /\ Handled("next", "", "", NoResponse)
         ELSE IF valid = "fail"
         THEN /\ Handled("next", NextAlert, "", NoResponse)
              /\ UNCHANGED << currentSection, domVars >>
         ELSE /\ Handled("next", "", TypeError, NoResponse)
              /\ UNCHANGED << currentSection, domVars >>
  /\ UNCHANGED << totalSections, submitVars, fieldVars, inflight, sessionStorage, location >>

\* slip: the previous handler goes back only from a section that validates
PrevClickValidated ==
  /\ location = Page
  /\ currentSection > -MaxUnderflow
  /\ IF validateSection(currentSection) = "fail"
     THEN UNCHANGED << currentSection, domVars >>
     ELSE /\ currentSection' = currentSection - 1
          /\ IF currentSection' >= 0
             THEN showSection(currentSection')
             ELSE UNCHANGED domVars
  /\ Handled("prev", "", "", NoResponse)
  /\ UNCHANGED << totalSections, submitVars, fieldVars, inflight, sessionStorage, location >>

\* prevBtn 'click'
PrevClick ==
  /\ location = Page
  /\ currentSection > -MaxUnderflow
  /\ currentSection' = currentSection - 1
  /\ IF currentSection' >= 0
     THEN showSection(currentSection')
     ELSE UNCHANGED domVars
  /\ Handled("prev", "", "", NoResponse)
  /\ UNCHANGED << totalSections, submitVars, fieldVars, inflight, sessionStorage, location >>

(* ------------------------------ submission ----------------------------- *)
\* new FormData(form).entries(): one <<name, value>> per successful control of
\* the document, in tree order (an unchecked radio or checkbox has no entry)
RECURSIVE EntriesFrom(_)
EntriesFrom(f) ==
  IF f > Len(Form) THEN << >>
  ELSE IF Form[f].section \notin Sections THEN EntriesFrom(f + 1)
  ELSE IF Form[f].kind \in {"text", "select"}
       THEN << << Form[f].name, value[f] >> >> \o EntriesFrom(f + 1)
  ELSE IF checked[f]
       THEN << << Form[f].name, Form[f].value >> >> \o EntriesFrom(f + 1)
  ELSE EntriesFrom(f + 1)

\* slip: a key that is already set is not overwritten (first value wins)
RECURSIVE CollectDataFirstWins(_, _)
CollectDataFirstWins(entries, data) ==
  IF entries = << >> THEN data
  ELSE LET key == Head(entries)[1]
           val == Head(entries)[2]
       IN  CollectDataFirstWins(Tail(entries),
                                [k \in DOMAIN data \cup {key} |->
                                   IF k \in DOMAIN data THEN data[k] ELSE val])

\* for (let [key, value] of formData.entries()) data[key] = value
RECURSIVE CollectData(_, _)
CollectData(entries, data) ==
  IF entries = << >> THEN data
  ELSE LET key == Head(entries)[1]
           val == Head(entries)[2]
       IN  CollectData(Tail(entries),
                       [k \in DOMAIN data \cup {key} |-> IF k = key THEN val ELSE data[k]])

\* JSON.stringify: the text that denotes the object
JSONStringify(obj) == [json |-> obj]

\* sessionStorage.setItem
SetItem(storage, key, item) ==
  [k \in DOMAIN storage \cup {key} |-> IF k = key THEN item ELSE storage[k]]

\* slip: the loading state changes the label but leaves the control enabled
ShowLoadingStateEnabled ==
  /\ submitText' = "Processing..."
  /\ submitDisabled' = FALSE

\* slip: the loading state disables the control but leaves its label
ShowLoadingStateNoLabel ==
  /\ submitText' = submitText
  /\ submitDisabled' = TRUE

\* submitBtn.textContent = 'Processing...'; submitBtn.disabled = true
ShowLoadingState ==
  /\ submitText' = "Processing..."
  /\ submitDisabled' = TRUE

\* fetch('/predict', {method: 'POST', ..., body: JSON.stringify(data)})
Fetch(data) ==
  inflight' = Append(inflight,
                     [url |-> "/predict", method |-> "POST",
                      contentType |-> "application/json", body |-> JSONStringify(data)])

\* slip: the submit handler sends the form whatever validateSection returns
SubmitEventUnvalidated ==
  /\ location = Page
  /\ ~submitDisabled
  /\ ShowLoadingState
  /\ Fetch(CollectData(EntriesFrom(1), << >>))
  /\ Handled("submit", "", "", NoResponse)
  /\ UNCHANGED << totalSections, currentSection, domVars, fieldVars, sessionStorage, location >>

\* form 'submit'; a disabled submit button does not submit its form
SubmitEvent ==
  /\ location = Page
  /\ ~submitDisabled
  /\ LET valid == validateSection(currentSection)
     IN  IF valid = "pass"
         THEN /\ ShowLoadingState
              /\ Fetch(CollectData(EntriesFrom(1), << >>))
              /\ Handled("submit", "", "", NoResponse)
         ELSE IF valid = "fail"
         THEN /\ Handled("submit", SubmitAlert, "", NoResponse)
              /\ UNCHANGED << submitVars, inflight >>
         ELSE /\ Handled("submit", "", TypeError, NoResponse)
              /\ UNCHANGED << submitVars, inflight >>
  /\ UNCHANGED << totalSections, currentSection, domVars, fieldVars, sessionStorage, location >>

\* slip: the catch handler reports the error but forgets the submit control
CatchHandlerStaysDisabled(error) ==
  /\ consoleError' = error
  /\ alertMsg' = GenericError
  /\ UNCHANGED submitVars
  /\ UNCHANGED << sessionStorage, location >>

\* .catch(error => ...)
CatchHandler(error) ==
  /\ consoleError' = error
  /\ alertMsg' = GenericError
  /\ submitText' = "Submit Assessment"
  /\ submitDisabled' = FALSE
  /\ UNCHANGED << sessionStorage, location >>

\* slip: only the result member of the response is stored
ThenResultStoresResultOnly(result) ==
  IF result.success
  THEN /\ sessionStorage' = SetItem(sessionStorage, "riskResults",
                                     JSONStringify([result |-> result.result]))
       /\ location' = "/results"
       /\ alertMsg' = ""
       /\ consoleError' = ""
       /\ UNCHANGED submitVars
  ELSE CatchHandler(IF result.error # "" THEN result.error ELSE "Prediction failed")

\* .then(result => ...)
ThenResult(result) ==
  IF result.success
  THEN /\ sessionStorage' = SetItem(sessionStorage, "riskResults", JSONStringify(result))
       /\ location' = "/results"
       /\ alertMsg' = ""
       /\ consoleError' = ""
       /\ UNCHANGED submitVars
  ELSE CatchHandler(IF result.error # "" THEN result.error ELSE "Prediction failed")

\* response.json(): the object the response body denotes
ResponseJson(o) == [success |-> o.success, error |-> o.error, result |-> o.result]

\* a pending request settles and the promise chain runs on its outcome
Settle ==
  /\ location = Page
  /\ \E i \in 1..Len(inflight) : \E o \in Outcomes :
       /\ inflight' = SubSeq(inflight, 1, i - 1) \o SubSeq(inflight, i + 1, Len(inflight))
       /\ event' = "settle"
       /\ response' = o
       /\ IF o.kind = "json" THEN ThenResult(ResponseJson(o))
          ELSE IF o.kind = "parse" THEN CatchHandler("SyntaxError: Unexpected token")
          ELSE CatchHandler("TypeError: Failed to fetch")
  /\ UNCHANGED << totalSections, currentSection, domVars, fieldVars >>

Next ==
  \/ InputValue
  \/ ToggleCheckbox
  \/ SelectRadio
  \/ NextClick
  \/ PrevClick
  \/ SubmitEvent
  \/ Settle

Spec == Init /\ [][Next]_vars

(* ============================== properties ============================= *)
\* what the last settled request was
Failed == event = "settle" /\ ~(response.kind = "json" /\ response.success)
Succeeded == event = "settle" /\ response.kind = "json" /\ response.success

\* C1: after any sequence of next clicks, previous clicks and submit events the
\* current section index stays in [0, N): a next click at N-1 does not move it
\* past N-1 and a previous click at 0 does not move it below 0.
C1_IndexInBounds == currentSection \in Sections

\* the requirement of section i as the specification states it
RadioGroupNames(i) ==
  {Form[f].name : f \in {g \in FieldIds : Form[g].section = i /\ Form[g].kind = "radio"
                                          /\ Form[g].required}}
RequiredAnswered(i) ==
  /\ \A f \in FieldIds :
       (Form[f].section = i /\ Form[f].required /\ Form[f].kind \in {"text", "select"})
         => Trim(value[f]) # << >>
  /\ \A f \in FieldIds :
       (Form[f].section = i /\ Form[f].required /\ Form[f].kind = "checkbox") => checked[f]
  /\ \A n \in RadioGroupNames(i) :
       \E f \in FieldIds : Form[f].kind = "radio" /\ Form[f].name = n /\ checked[f]

\* C2: validate(i) passes if and only if every required text/select field of
\* section i is non-empty after trimming, every required checkbox is checked and
\* every required radio group has a checked member; a section with an empty
\* required text or select field fails.
C2_ValidateIffRequiredAnswered ==
  \A i \in Sections : (validateSection(i) = "pass") <=> RequiredAnswered(i)

\* C3: when the response has success=false and carries an error string, the
\* message shown to the user is that string.
C3_ServerMessageShown ==
  (Failed /\ response.kind = "json" /\ response.error # "") => alertMsg = response.error

\* C4: at most one submission request is in flight at any time; a request is
\* issued only when none is pending and the page has not navigated away.
C4_OneInFlight ==
  /\ [](Len(inflight) <= 1)
  /\ [][Len(inflight') > Len(inflight) => (inflight = << >> /\ location = Page)]_vars

C4_Witness == event = "submit" /\ Len(inflight) = 1 /\ submitDisabled

\* C5: every failed submission (success=false, transport failure or parse
\* failure) leaves the submit control enabled with the label 'Submit Assessment'
\* and an error message displayed, and changes neither the index nor the active
\* section.
C5_FailureReenables ==
  [][(event' = "settle" /\ ~(response'.kind = "json" /\ response'.success))
       => /\ ~submitDisabled'
          /\ submitText' = "Submit Assessment"
          /\ alertMsg' # ""
          /\ currentSection' = currentSection
          /\ active' = active]_vars

C5_Witness ==
  /\ Failed
  /\ response.kind = "transport"
  /\ ~submitDisabled
  /\ submitText = "Submit Assessment"
  /\ alertMsg = GenericError

\* C6: a response with success=true has its full payload stored under
\* 'riskResults' and the page navigates to '/results'; the submit control stays
\* disabled and no error message is shown.
C6_SuccessStoresAndNavigates ==
  /\ Succeeded <=> location = "/results"
  /\ Succeeded =>
       /\ "riskResults" \in DOMAIN sessionStorage
       /\ sessionStorage["riskResults"] =
            [json |-> [success |-> TRUE, error |-> response.error, result |-> response.result]]
       /\ submitDisabled
       /\ submitText = "Processing..."
       /\ alertMsg = ""

C6_Witness == Succeeded /\ location = "/results" /\ response.result = "score: 0.8"

\* C7: a next click changes the index only if validate(current) passes; when
\* validation fails, the index, the rendered view and the controls are unchanged
\* and the prompt to answer all required questions is shown.
C7_AdvanceNeedsValidation ==
  [][event' = "next" =>
       /\ currentSection' # currentSection => validateSection(currentSection) = "pass"
       /\ validateSection(currentSection) = "fail" =>
            /\ UNCHANGED << currentSection, domVars, submitVars >>
            /\ alertMsg' = NextAlert]_vars

C7_Witness ==
  /\ event = "next"
  /\ alertMsg = NextAlert
  /\ validateSection(currentSection) = "fail"

\* C8: a request is issued only by a submit event whose validate(current)
\* passes, and then exactly one; a submit event whose validation fails issues
\* none and leaves the submit control's label and enabled state alone; a failed
\* request is not retried.
C8_SubmitNeedsValidation ==
  [][/\ inflight' # inflight /\ Len(inflight') >= Len(inflight) =>
          /\ event' = "submit"
          /\ validateSection(currentSection) = "pass"
          /\ Len(inflight') = Len(inflight) + 1
     /\ (event' = "submit" /\ validateSection(currentSection) = "pass") =>
          Len(inflight') = Len(inflight) + 1
     /\ (event' = "submit" /\ validateSection(currentSection) = "fail") =>
          UNCHANGED << inflight, submitVars >>
     /\ event' = "settle" => Len(inflight') = Len(inflight) - 1]_vars

C8_Witness ==
  /\ event = "submit"
  /\ alertMsg = SubmitAlert
  /\ inflight = << >>
  /\ ~submitDisabled

\* C9: exactly one section is marked active in every reachable state, and it is
\* the section of the last render (the step counter shows its index + 1).
C9_ExactlyOneActive ==
  /\ Cardinality({s \in Sections : active[s]}) = 1
  /\ \A s \in Sections : active[s] <=> s = currentStep - 1

C9_Witness == event = "next" /\ currentSection = totalSections - 1 /\ currentSection > 0
              /\ active[currentSection]

\* C10: a previous click at an index i > 0 sets the index to i-1 and renders
\* section i-1 whether or not section i validates, and a single next or previous
\* click changes the index by at most one.
C10_RetreatUnconditional ==
  [][/\ (event' = "prev" /\ currentSection > 0) =>
          /\ currentSection' = currentSection - 1
          /\ active' = [s \in Sections |-> s = currentSection - 1]
          /\ currentStep' = currentSection
     /\ event' \in {"next", "prev"} =>
          currentSection' - currentSection \in {-1, 0, 1}]_vars

C10_Witness ==
  /\ event = "prev"
  /\ currentSection \in Sections
  /\ validateSection(currentSection + 1) = "fail"

\* C11: the navigation controls match the index: the previous control is hidden
\* exactly when the index is 0, the next control is hidden and the submit control
\* shown exactly when the index is N-1, and otherwise the next control is shown
\* and the submit control hidden.
C11_ControlsMatchIndex ==
  /\ prevDisplay = "none" <=> currentSection = 0
  /\ nextDisplay = "none" <=> currentSection = totalSections - 1
  /\ submitDisplay = "inline-block" <=> currentSection = totalSections - 1
  /\ nextDisplay = "inline-block" <=> submitDisplay = "none"

\* the mapping the ordered entry list denotes when the last entry of a name wins
LastIndexOf(entries, n) ==
  CHOOSE i \in 1..Len(entries) :
    /\ entries[i][1] = n
    /\ \A j \in (i + 1)..Len(entries) : entries[j][1] # n
LastValueWins(entries) ==
  [n \in {entries[i][1] : i \in 1..Len(entries)} |-> entries[LastIndexOf(entries, n)][2]]

\* C12: the request body maps each name present among the form's ordered
\* (name, value) entries to the value of its last entry; a checkbox that is not
\* checked contributes no entry, so a name whose boxes are all unchecked is no key.
C12_SerializeLastWins ==
  [][(event' = "submit" /\ Len(inflight') > Len(inflight)) =>
       LET body == inflight'[Len(inflight')].body.json
       IN  /\ body = LastValueWins(EntriesFrom(1))
           /\ "age" \in DOMAIN body /\ body["age"] = value[1]
           /\ \A f \in FieldIds :
                (Form[f].kind = "checkbox" /\ Form[f].section \in Sections) =>
                  (Form[f].name \in DOMAIN body <=>
                     \E g \in FieldIds : Form[g].name = Form[f].name /\ checked[g])]_vars

C12_Witness ==
  /\ event = "submit"
  /\ Len(inflight) = 1
  /\ checked[5] /\ checked[6]
  /\ inflight[1].body.json["terms"] = Form[6].value

\* C13: a submission request is issued only while the current index is N-1; no
\* request is issued while an earlier section is the current one.
C13_RequestOnlyAtLastSection ==
  (event = "submit" /\ inflight # << >>) => currentSection = totalSections - 1

\* C14: while a request is in flight the submit control is disabled and shows
\* the busy label; it becomes disabled in the step that issues the request and
\* enabled again only in the failure handling of a settled request, whatever
\* navigation or input happens meanwhile.
C14_DisabledWhileInFlight ==
  /\ [](inflight # << >> => (submitDisabled /\ submitText = "Processing..."))
  /\ [][(~submitDisabled /\ submitDisabled') =>
          (event' = "submit" /\ Len(inflight') = Len(inflight) + 1)]_vars
  /\ [][(submitDisabled /\ ~submitDisabled') =>
          (event' = "settle" /\ ~(response'.kind = "json" /\ response'.success)
             /\ Len(inflight') = Len(inflight) - 1)]_vars
  /\ [][(inflight # << >> /\ event' # "settle") => (submitDisabled' /\ inflight' = inflight)]_vars

C14_Witness ==
  /\ event = "prev"
  /\ inflight # << >>
  /\ submitDisabled
  /\ submitText = "Processing..."
  /\ currentSection # totalSections - 1

\* section i's only defect is a required checkbox that is not checked
UncheckedRequiredCheckbox(i) ==
  \E f \in FieldIds :
    Form[f].section = i /\ Form[f].kind = "checkbox" /\ Form[f].required /\ ~checked[f]
OnlyCheckboxDefect(i) ==
  /\ UncheckedRequiredCheckbox(i)
  /\ \A f \in FieldIds :
       (Form[f].section = i /\ Form[f].required /\ Form[f].kind \in {"text", "select"})
         => Trim(value[f]) # << >>
  /\ \A n \in RadioGroupNames(i) :
       \E f \in FieldIds : Form[f].kind = "radio" /\ Form[f].name = n /\ checked[f]

\* C15 (as claimed): an unchecked required checkbox does not block progression:
\* validate(i) passes for a section whose only defect is an unchecked required
\* checkbox.
C15_CheckboxDoesNotBlock ==
  \A i \in Sections : OnlyCheckboxDefect(i) => validateSection(i) = "pass"

\* C15 (amended): the failure signalled for an unchecked required checkbox inside
\* the iteration is lost, but the checkbox loop after it fails the section:
\* validate(i) fails whenever section i has an unchecked required checkbox, and
\* a next click or submit event at such a section neither advances nor sends.
C15_CheckboxBlocks ==
  /\ [](\A i \in Sections : UncheckedRequiredCheckbox(i) => validateSection(i) = "fail")
  /\ [][(event' \in {"next", "submit"} /\ currentSection \in Sections
            /\ UncheckedRequiredCheckbox(currentSection)) =>
          /\ UNCHANGED << currentSection, inflight, submitVars >>
          /\ alertMsg' \in {NextAlert, SubmitAlert}]_vars

C15_Witness ==
  /\ event = "submit"
  /\ alertMsg = SubmitAlert
  /\ currentSection \in Sections
  /\ OnlyCheckboxDefect(currentSection)
  /\ inflight = << >>

\* C16: for each group name among the required radios of section i, validate(i)
\* accepts the group when some radio of that name is checked, also one without
\* the required flag: a section whose requirement is answered passes.
C16_GroupAcceptedByAnyMember ==
  \A i \in Sections : RequiredAnswered(i) => validateSection(i) = "pass"

\* C17: nothing is fatal: in every reachable state that has not navigated away
\* and has no request in flight the wizard still answers the user: a next click
\* or a submit event is handled without an exception, or a previous click lands
\* on a section (no event sequence leaves the wizard stuck).
C17_NeverStuck ==
  (location = Page /\ inflight = << >>) =>
    \/ ENABLED (NextClick /\ consoleError' = "")
    \/ ENABLED (SubmitEvent /\ consoleError' = "")
    \/ ENABLED (PrevClick /\ currentSection' \in Sections)

\* C18: the rendered view corresponds to the current index in every reachable
\* state: the active section is sections[currentSection], the step counter shows
\* currentSection + 1 and the progress indicator (currentSection + 1)/N percent.
C18_ViewMatchesIndex ==
  /\ \A s \in Sections : active[s] <=> s = currentSection
  /\ currentStep = currentSection + 1
  /\ progressWidth[1] * totalSections = (currentSection + 1) * 100 * progressWidth[2]

\* C19: whenever a request is issued, every section of the form passes validate
\* at that moment, not only the current one.
C19_AllSectionsValidAtSubmit ==
  (event = "submit" /\ inflight # << >>) =>
    \A i \in Sections : validateSection(i) = "pass"

====
